---- MODULE Spec2Model ----
(***************************************************************************)
(* A state-machine model of the face tracking and recording component      *)
(* (the App component of src/src/app/page.js and of its variant            *)
(* src/unnamed/part_000, which adds the expression tally).                 *)
(*                                                                         *)
(* React state (useState) and refs (useRef) are the variables; every event *)
(* handler, timer callback, promise continuation and recorder callback is  *)
(* one action.  The browser is the environment: the outcome of             *)
(* getUserMedia, of the model loads, of MediaRecorder.isTypeSupported, the *)
(* recorder's data and stop events and the detection results are inputs    *)
(* drawn from small sets.                                                  *)
(***************************************************************************)
EXTENDS Naturals, Integers, Sequences, FiniteSets, TLC

\* ------------------------------------------------------------------ bounds
\* Recorders (MediaRecorder instances) constructed in one run.
MaxRecorders == 2
\* Non-empty segments one recorder delivers while it records (the one of its
\* stop task comes on top).
MaxChunks == 1
\* getUserMedia requests outstanding at once.
MaxCamPending == 1
\* Streams getUserMedia returns in one run.
MaxStreams == 2

\* Detection intervals (setInterval handles) created in one run.
MaxIntervals == 2
\* Pending 200 ms retries of handleVideoPlay at once.
MaxRetries == 1
\* detectAllFaces calls in flight at once.
MaxInFlight == 2
\* Faces one detection returns.
MaxFaces == 2
\* The tally's total; a detection that would exceed it is not delivered.
MaxTally == 2
\* The scores the dominant-expression selection is explored over are 0..MaxScore.
MaxScore == 2
\* The values Date.now() returns are 1..MaxNow.
MaxNow == 2

Recorders == 1..MaxRecorders
Intervals == 1..MaxIntervals

\* ------------------------------------------------------------- vocabulary
\* The two files of the component.
Variants == {"page", "unnamed"}

\* possibleMimeTypes, by position in the list.
possibleMimeTypes ==
    << "video/webm; codecs=vp9,opus",
       "video/webm; codecs=vp8,opus",
       "video/webm; codecs=vp9",
       "video/webm; codecs=vp8",
       "video/webm",
       "video/mp4; codecs=avc1" >>

MimeIdx == 1..Len(possibleMimeTypes)

\* What MediaRecorder.isTypeSupported answers in the runtimes the recording
\* pipeline is explored under: nothing, mp4 only, the vp8 family, every webm
\* type, everything.
RuntimeProfiles == { {}, {6}, {2, 4, 5}, {1, 2, 3, 4, 5}, MimeIdx }

\* The keys of a face's expressions object, in Object.keys order (the order
\* of the initial expressionCounts and of face-api's expression labels).
ExpressionLabels ==
    << "neutral", "happy", "sad", "angry", "fearful", "disgusted", "surprised" >>

LabelIdx == 1..Len(ExpressionLabels)

\* A face's expressions: a score per label, by position in ExpressionLabels.
OneHot(i) == [j \in LabelIdx |-> IF j = i THEN 1 ELSE 0]

\* The expressions the annotation loop is explored under: a label alone on
\* top (the first one, an inner one), a two-way tie, a tie of all seven.
ExprSamples ==
    { OneHot(1), OneHot(4),
      [j \in LabelIdx |-> IF j \in {2, 5} THEN 1 ELSE 0],
      [j \in LabelIdx |-> 1] }

\* Sequences of at most n elements of S.
SeqUpTo(S, n) == UNION { [1..k -> S] : k \in 0..n }

\* What detectAllFaces(...).withFaceLandmarks().withFaceExpressions() resolves
\* to: the expressions of each detected face (every face has them).
DetectionResults == SeqUpTo(ExprSamples, MaxFaces)

\* The messages given to setError.
NoError == ""
ErrModels == "Failed to load face tracking models."
ErrNotAllowed == "Camera access denied."
ErrNotFound == "No camera found."
ErrNotReadable == "Camera is already in use or not accessible."
ErrWebcamOther == "Failed to access webcam."
ErrNotReady == "Camera not ready or models not loaded."
ErrUnsupportedCodec == "Your browser does not support any common video recording codecs."
ErrRecorderCtor == "Failed to create video recorder."
ErrNoData == "Recording stopped, but no video data was captured."

\* The four nets of the Promise.all of loadModels, in its order:
\* tinyFaceDetector, faceLandmark68Net, faceRecognitionNet, faceExpressionNet.
Nets == 1..4

\* Whether each loadFromUri resolves, in the cases the setup is explored
\* under: all resolve, the detector alone rejects, the expression net alone
\* rejects, all reject.
LoadOutcomes ==
    { [n \in Nets |-> TRUE],
      [n \in Nets |-> n # 1],
      [n \in Nets |-> n # 4],
      [n \in Nets |-> FALSE] }

\* Promise.all resolves when every promise does and rejects otherwise.
PromiseAll(loads) == \A n \in Nets : loads[n]

\* The outcomes of navigator.mediaDevices.getUserMedia.
CamOutcomes == {"granted", "NotAllowedError", "NotFoundError", "NotReadableError", "other"}

VARIABLES
    variant,                \* which file of the component runs
    faceapi,                \* typeof window.faceapi !== 'undefined'
    mount,                  \* "constructed" | "mounted" | "unmounted"
    mountCleanup,           \* what the first effect returned: "none" | "clearTimeout" | "release"
    mountTimer,             \* the mount effect's 500 ms timeout is pending
    modelLoad,              \* "idle" | "pending" | "settled": the Promise.all of loadModels
    modelsLoaded,
    netsLoaded,             \* the nets whose loadFromUri has resolved
    camPending,             \* getUserMedia requests not yet settled
    isCameraReady,
    cameraPermissionStatus,
    srcObject,              \* videoRef.current.srcObject is a stream
    streams,                \* streams getUserMedia returned whose tracks are not stopped
    error,
    supported,              \* the MIME types MediaRecorder.isTypeSupported accepts
    recState,               \* recorder.state of each recorder, "uncreated" before its construction
    recMime,                \* the mimeType each recorder was constructed with (0: none)
    startTimer,             \* the recorder's 200 ms start timeout is pending
    onstartPending,         \* the recorder's start event is queued
    stopTask,               \* the recorder's stop task (final dataavailable, then stop) is queued
    captured,               \* canvasRef.current.captureStream() has been called
    artifactType,           \* per recorder: the type of the blob its onstop made ("": none)
    recordedChunksRef,      \* recordedChunksRef.current
    mediaRecorder,          \* the recorder in state (0: null)
    recording,
    videoUrl,               \* 0: '', r: the object URL of the blob recorder r's onstop made
    urls,                   \* object URLs created and not revoked
    saved,                  \* file-save actions triggered, per href of the clicked anchor
    download,               \* a.download of the anchor downloadVideo built last (<< >>: none yet)
    delivered,              \* per recorder: the non-empty segments its data events delivered
    lastStopped,            \* the recorder whose onstop handler ran last (0: none yet)
    lastBlob,               \* the segments that handler found in the segment buffer
    idleCalls,              \* the operations that have been called and found nothing to do
    videoPlaying,           \* !video.paused && !video.ended
    videoDims,              \* video.videoWidth and video.videoHeight are non-zero
    playPending,            \* a play event of the video is queued
    retryTimers,            \* pending 200 ms retries of handleVideoPlay
    intervals,              \* the detection intervals that are active
    nIntervals,             \* detection intervals created so far
    viaRetry,               \* the interval created last was created by a 200 ms retry
    detectionIntervalId,    \* video.detectionIntervalId (0: not set)
    inFlight,               \* detectAllFaces calls not yet settled
    frameTickPending,       \* the call of the tick that drew the frame on the canvas is one of them
    canvas,                 \* "blank" | "frame" | "annotated": what was drawn last
    expressionCounts,       \* the tally, by position in ExpressionLabels
    tallied,                \* per label: faces with that dominant expression since the last reset
    wasReset,               \* a reset has zeroed a tally that was not zero
    lastFaces,              \* the number of faces of the detection that settled last
    probe,                  \* the expressions handed to the dominant-expression selection
    picked                  \* the label it selected (0: not run)

setupVars == << variant, faceapi, mount, mountCleanup, mountTimer, modelLoad,
                modelsLoaded, netsLoaded, camPending, isCameraReady,
                cameraPermissionStatus, srcObject, streams >>
recVars == << supported, captured, artifactType, recState, recMime, startTimer, onstartPending, stopTask,
              recordedChunksRef, mediaRecorder, recording, videoUrl,
              urls, saved, download, delivered, lastStopped, lastBlob, idleCalls >>
loopVars == << videoPlaying, videoDims, playPending, retryTimers, intervals,
               nIntervals, viaRetry, detectionIntervalId, inFlight,
               frameTickPending, canvas >>
tallyVars == << expressionCounts, tallied, wasReset, lastFaces >>
probeVars == << probe, picked >>
vars == << setupVars, error, recVars, loopVars, tallyVars, probeVars >>

\* ------------------------------------------------------------------- Init
\* The initial expressionCounts of useState.
InitialCounts == [i \in LabelIdx |-> 0]

InitSetup ==
    /\ variant \in Variants
    /\ faceapi \in BOOLEAN
    /\ mount = "constructed"
    /\ mountCleanup = "none"
    /\ mountTimer = FALSE
    /\ modelLoad = "idle"
    /\ modelsLoaded = FALSE
    /\ netsLoaded = [n \in Nets |-> FALSE]
    /\ camPending = 0
    /\ isCameraReady = FALSE
    /\ cameraPermissionStatus = "unknown"
    /\ srcObject = FALSE
    /\ streams = 0
    /\ error = NoError

InitRec ==
    /\ recState = [r \in Recorders |-> "uncreated"]
    /\ recMime = [r \in Recorders |-> 0]
    /\ startTimer = [r \in Recorders |-> FALSE]
    /\ onstartPending = [r \in Recorders |-> FALSE]
    /\ stopTask = [r \in Recorders |-> FALSE]
    /\ captured = FALSE
    /\ artifactType = [r \in Recorders |-> ""]
    /\ recordedChunksRef = << >>
    /\ mediaRecorder = 0
    /\ recording = FALSE
    /\ videoUrl = 0
    /\ urls = {}
    /\ saved = [u \in 0..MaxRecorders |-> 0]
    /\ download = << >>
    /\ delivered = [r \in Recorders |-> << >>]
    /\ lastStopped = 0
    /\ lastBlob = << >>
    /\ idleCalls = {}

InitLoop ==
    /\ videoPlaying = FALSE
    /\ videoDims = FALSE
    /\ playPending = FALSE
    /\ retryTimers = 0
    /\ intervals = {}
    /\ nIntervals = 0
    /\ viaRetry = FALSE
    /\ detectionIntervalId = 0
    /\ inFlight = 0
    /\ frameTickPending = FALSE
    /\ canvas = "blank"
    /\ expressionCounts = InitialCounts
    /\ tallied = [i \in LabelIdx |-> 0]
    /\ wasReset = FALSE
    /\ lastFaces = 0

InitProbe ==
    /\ probe = [i \in LabelIdx |-> 0]
    /\ picked = 0

Init ==
    /\ InitSetup
    /\ InitRec
    /\ InitLoop
    /\ InitProbe
    /\ supported \in RuntimeProfiles

\* ------------------------------------------------------------------ setup
\* The face-api.js script of layout.js finishes loading.
ScriptLoaded ==
    /\ ~faceapi
    /\ faceapi' = TRUE
    /\ UNCHANGED << variant, mount, mountCleanup, mountTimer, modelLoad, modelsLoaded,
                    netsLoaded, camPending, isCameraReady, cameraPermissionStatus,
                    srcObject, streams, error, recVars, loopVars, tallyVars, probeVars >>

\* loadModels() and startWebcam() up to their first await.  Every call site
\* has checked window.faceapi, so loadModels' own retry branch is not taken.
LoadAndStart ==
    /\ modelLoad' = "pending"
    /\ error' = NoError
    /\ camPending' = camPending + 1

\* The first useEffect.
MountEffect ==
    /\ mount = "constructed"
    /\ mount' = "mounted"
    /\ IF faceapi
          THEN /\ LoadAndStart
               /\ mountCleanup' = "release"
               /\ UNCHANGED mountTimer
          ELSE /\ mountTimer' = TRUE
               /\ mountCleanup' = "clearTimeout"
               /\ UNCHANGED << modelLoad, error, camPending >>
    /\ UNCHANGED << variant, faceapi, modelsLoaded, netsLoaded, isCameraReady,
                    cameraPermissionStatus, srcObject, streams, recVars, loopVars,
                    tallyVars, probeVars >>

\* The 500 ms timeout of the first useEffect.
MountTimeout ==
    /\ mountTimer
    /\ mountTimer' = FALSE
    /\ IF faceapi
          THEN LoadAndStart
          ELSE UNCHANGED << modelLoad, error, camPending >>
    /\ UNCHANGED << variant, faceapi, mount, mountCleanup, modelsLoaded, netsLoaded,
                    isCameraReady, cameraPermissionStatus, srcObject, streams, recVars,
                    loopVars, tallyVars, probeVars >>

\* loadModels with setModelsLoaded(true) reached after a rejection as well.
ModelsSettle_AlwaysLoaded(loads) ==
    /\ modelLoad = "pending"
    /\ modelLoad' = "settled"
    /\ netsLoaded' = loads
    /\ IF mount # "mounted"
          THEN UNCHANGED << modelsLoaded, error >>
          ELSE /\ modelsLoaded' = TRUE
               /\ error' = IF PromiseAll(loads) THEN error ELSE ErrModels
    /\ UNCHANGED << variant, faceapi, mount, mountCleanup, mountTimer, camPending,
                    isCameraReady, cameraPermissionStatus, srcObject, streams, recVars,
                    loopVars, tallyVars, probeVars >>

\* The Promise.all of loadModels settles, loads telling which loadFromUri
\* resolved.  A state update of an unmounted component is dropped.
ModelsSettle(loads) ==
    /\ modelLoad = "pending"
    /\ modelLoad' = "settled"
    /\ netsLoaded' = loads
    /\ IF mount # "mounted"
          THEN UNCHANGED << modelsLoaded, error >>
          ELSE IF PromiseAll(loads)
          THEN modelsLoaded' = TRUE /\ UNCHANGED error
          ELSE error' = ErrModels /\ UNCHANGED modelsLoaded
    /\ UNCHANGED << variant, faceapi, mount, mountCleanup, mountTimer, camPending,
                    isCameraReady, cameraPermissionStatus, srcObject, streams, recVars,
                    loopVars, tallyVars, probeVars >>

\* The Request Camera Access button, rendered while the camera is not ready
\* and the permission not granted: startWebcam up to its await.
RequestCameraAccess ==
    /\ mount = "mounted"
    /\ ~isCameraReady /\ cameraPermissionStatus # "granted"
    /\ camPending < MaxCamPending
    /\ error' = NoError
    /\ camPending' = camPending + 1
    /\ UNCHANGED << variant, faceapi, mount, mountCleanup, mountTimer, modelLoad,
                    modelsLoaded, netsLoaded, isCameraReady, cameraPermissionStatus,
                    srcObject, streams, recVars, loopVars, tallyVars, probeVars >>

\* The catch branch of startWebcam without its NotFoundError case.
WebcamError_NoNotFound(outcome) ==
    CASE outcome = "NotAllowedError" -> ErrNotAllowed
      [] outcome = "NotReadableError" -> ErrNotReadable
      [] OTHER -> ErrWebcamOther

\* The message the catch branch of startWebcam chooses by err.name.
WebcamError(outcome) ==
    CASE outcome = "NotAllowedError" -> ErrNotAllowed
      [] outcome = "NotFoundError" -> ErrNotFound
      [] outcome = "NotReadableError" -> ErrNotReadable
      [] OTHER -> ErrWebcamOther

\* startWebcam after its await: getUserMedia has settled.  On success the
\* stream is attached and video.play() is called, which queues a play event;
\* after the unmount videoRef.current is null and the stream is left as it
\* came, and the state updates of the catch branch are dropped.
GetUserMediaSettle(outcome) ==
    /\ camPending > 0
    /\ camPending' = camPending - 1
    /\ outcome = "granted" => streams < MaxStreams
    /\ streams' = IF outcome = "granted" THEN streams + 1 ELSE streams
    /\ IF mount # "mounted"
          THEN UNCHANGED << srcObject, videoPlaying, playPending, isCameraReady,
                            cameraPermissionStatus, error >>
          ELSE IF outcome = "granted"
          THEN /\ srcObject' = TRUE
               /\ videoPlaying' = TRUE
               /\ playPending' = TRUE
               /\ isCameraReady' = TRUE
               /\ cameraPermissionStatus' = "granted"
               /\ UNCHANGED error
          ELSE /\ isCameraReady' = FALSE
               /\ cameraPermissionStatus' = "denied"
               /\ error' = WebcamError(outcome)
               /\ UNCHANGED << srcObject, videoPlaying, playPending >>
    /\ UNCHANGED << variant, faceapi, mount, mountCleanup, mountTimer, modelLoad,
                    modelsLoaded, netsLoaded, recVars, videoDims, retryTimers, intervals,
                    nIntervals, viaRetry, detectionIntervalId, inFlight, frameTickPending, canvas, tallyVars,
                    probeVars >>

\* The component unmounts: the cleanups of both effects run, and the browser
\* pauses the video element that leaves the document.  refAttached: whether
\* videoRef.current still holds the element when the first effect's cleanup
\* reads it (React detaches the refs of an unmounted component; whether the
\* cleanup of a passive effect runs before or after that depends on the
\* React version).  The second effect's cleanup uses the element it captured.
Unmount(refAttached) ==
    /\ mount = "mounted"
    /\ mount' = "unmounted"
    /\ mountTimer' = IF mountCleanup = "clearTimeout" THEN FALSE ELSE mountTimer
    /\ streams' = IF mountCleanup = "release" /\ refAttached /\ srcObject
                     THEN streams - 1
                     ELSE streams
    /\ intervals' = intervals \ {detectionIntervalId}
    /\ videoPlaying' = FALSE
    /\ UNCHANGED << variant, faceapi, mountCleanup, modelLoad, modelsLoaded, netsLoaded,
                    camPending, isCameraReady, cameraPermissionStatus, srcObject, error,
                    recVars, videoDims, playPending, retryTimers, nIntervals, viaRetry,
                    detectionIntervalId, inFlight, frameTickPending, canvas, tallyVars, probeVars >>

\* ------------------------------------------------------- recording pipeline
\* What the controls of the page allow: the disabled attributes of the Start
\* and Stop buttons and the condition under which Download is rendered.
StartEnabled == ~(recording \/ ~modelsLoaded \/ ~isCameraReady)
StopEnabled == recording
DownloadShown == videoUrl # 0

\* The condition under which the Request Camera Access button is rendered.
RequestShown == ~isCameraReady /\ cameraPermissionStatus # "granted"

\* The recorders constructed so far; they are numbered in construction order.
Created == { r \in Recorders : recState[r] # "uncreated" }

\* The for loop over possibleMimeTypes from entry i on: the first entry that
\* isTypeSupported accepts, 0 ('' in the code) when there is none.
RECURSIVE ProbeFrom(_, _)
ProbeFrom(sup, i) ==
    IF i > Len(possibleMimeTypes) THEN 0
    ELSE IF i \in sup THEN i
    ELSE ProbeFrom(sup, i + 1)

\* The loop without its break: the last supported entry wins.
RECURSIVE ProbeAllFrom(_, _, _)
ProbeAllFrom(sup, i, found) ==
    IF i > Len(possibleMimeTypes) THEN found
    ELSE ProbeAllFrom(sup, i + 1, IF i \in sup THEN i ELSE found)

supportedMimeType_NoBreak(sup) == ProbeAllFrom(sup, 1, 0)

\* A default of 'video/webm' in place of the empty string.
supportedMimeType_Fallback(sup) ==
    IF ProbeFrom(sup, 1) = 0 THEN 5 ELSE ProbeFrom(sup, 1)

supportedMimeType(sup) == ProbeFrom(sup, 1)

\* What split(';') makes of each entry of possibleMimeTypes.
MimeParts ==
    << << "video/webm", " codecs=vp9,opus" >>,
       << "video/webm", " codecs=vp8,opus" >>,
       << "video/webm", " codecs=vp9" >>,
       << "video/webm", " codecs=vp8" >>,
       << "video/webm" >>,
       << "video/mp4", " codecs=avc1" >> >>

\* The blob tagged with the whole supportedMimeType.
BlobType_Whole(m) == possibleMimeTypes[m]

\* supportedMimeType.split(';')[0], the type of the assembled blob.
BlobType(m) == MimeParts[m][1]

\* The readiness test of startRecording without its isCameraReady.
NotReady_ElementsOnly == mount # "mounted"

\* !videoRef.current || !canvasRef.current || !isCameraReady: both elements
\* are rendered for as long as the component is mounted.
NotReady == mount # "mounted" \/ ~isCameraReady

\* The handler that takes data only from a recorder that is recording.
ondataavailable_WhileRecording(ref, r, k, size) ==
    IF size > 0 /\ recState[r] = "recording" THEN Append(ref, << r, k >>) ELSE ref

\* recorder.ondataavailable: the segment buffer after a data event of
\* recorder r whose blob has the given size.
ondataavailable(ref, r, k, size) ==
    IF size > 0 THEN Append(ref, << r, k >>) ELSE ref

\* startRecording whose catch of the constructor's exception also gives the
\* camera up.
startRecording_FailureDropsCamera(ctorThrows) ==
    /\ mount = "mounted"
    /\ IF NotReady
          THEN /\ error' = ErrNotReady
               /\ UNCHANGED << captured, recState, recMime, startTimer, recordedChunksRef,
                               isCameraReady >>
          ELSE IF supportedMimeType(supported) = 0
          THEN /\ error' = ErrUnsupportedCodec
               /\ captured' = TRUE
               /\ UNCHANGED << recState, recMime, startTimer, recordedChunksRef,
                               isCameraReady >>
          ELSE IF ctorThrows
          THEN /\ error' = ErrRecorderCtor
               /\ captured' = TRUE
               /\ isCameraReady' = FALSE
               /\ UNCHANGED << recState, recMime, startTimer, recordedChunksRef >>
          ELSE LET r == Cardinality(Created) + 1 IN
               /\ r \in Recorders
               /\ captured' = TRUE
               /\ recState' = [recState EXCEPT ![r] = "inactive"]
               /\ recMime' = [recMime EXCEPT ![r] = supportedMimeType(supported)]
               /\ recordedChunksRef' = << >>
               /\ startTimer' = [startTimer EXCEPT ![r] = TRUE]
               /\ UNCHANGED << error, isCameraReady >>
    /\ UNCHANGED << download, variant, faceapi, mount, mountCleanup, mountTimer, modelLoad,
                    modelsLoaded, netsLoaded, camPending, cameraPermissionStatus,
                    srcObject, streams, loopVars, tallyVars, probeVars, supported,
                    artifactType, onstartPending, stopTask, mediaRecorder, recording,
                    videoUrl, urls, saved, delivered, lastStopped, lastBlob, idleCalls >>

\* startRecording starting its recorder itself, without the 200 ms timeout.
startRecording_StartsAtOnce(ctorThrows) ==
    /\ mount = "mounted"
    /\ IF NotReady
          THEN /\ error' = ErrNotReady
               /\ UNCHANGED << captured, recState, recMime, recordedChunksRef,
                               onstartPending, mediaRecorder, recording, videoUrl >>
          ELSE IF supportedMimeType(supported) = 0
          THEN /\ error' = ErrUnsupportedCodec
               /\ captured' = TRUE
               /\ UNCHANGED << recState, recMime, recordedChunksRef, onstartPending,
                               mediaRecorder, recording, videoUrl >>
          ELSE IF ctorThrows
          THEN /\ error' = ErrRecorderCtor
               /\ captured' = TRUE
               /\ UNCHANGED << recState, recMime, recordedChunksRef, onstartPending,
                               mediaRecorder, recording, videoUrl >>
          ELSE LET r == Cardinality(Created) + 1 IN
               /\ r \in Recorders
               /\ captured' = TRUE
               /\ recState' = [recState EXCEPT ![r] = "recording"]
               /\ recMime' = [recMime EXCEPT ![r] = supportedMimeType(supported)]
               /\ recordedChunksRef' = << >>
               /\ onstartPending' = [onstartPending EXCEPT ![r] = TRUE]
               /\ mediaRecorder' = r
               /\ recording' = TRUE
               /\ videoUrl' = 0
               /\ UNCHANGED error
    /\ UNCHANGED << download, setupVars, loopVars, tallyVars, probeVars, supported, artifactType,
                    startTimer, stopTask, urls, saved, delivered, lastStopped, lastBlob,
                    idleCalls >>

\* startRecording().  ctorThrows: new MediaRecorder(...) throws.  The canvas
\* stream is captured right after the readiness test.
startRecording(ctorThrows) ==
    /\ mount = "mounted"
    /\ IF NotReady
          THEN /\ error' = ErrNotReady
               /\ UNCHANGED << captured, recState, recMime, startTimer, recordedChunksRef >>
          ELSE IF supportedMimeType(supported) = 0
          THEN /\ error' = ErrUnsupportedCodec
               /\ captured' = TRUE
               /\ UNCHANGED << recState, recMime, startTimer, recordedChunksRef >>
          ELSE IF ctorThrows
          THEN /\ error' = ErrRecorderCtor
               /\ captured' = TRUE
               /\ UNCHANGED << recState, recMime, startTimer, recordedChunksRef >>
          ELSE LET r == Cardinality(Created) + 1 IN
               /\ r \in Recorders
               /\ captured' = TRUE
               /\ recState' = [recState EXCEPT ![r] = "inactive"]
               /\ recMime' = [recMime EXCEPT ![r] = supportedMimeType(supported)]
               /\ recordedChunksRef' = << >>
               /\ startTimer' = [startTimer EXCEPT ![r] = TRUE]
               /\ UNCHANGED error
    /\ UNCHANGED << download, setupVars, loopVars, tallyVars, probeVars, supported, artifactType, onstartPending, stopTask, mediaRecorder, recording, videoUrl, urls, saved, delivered,
                    lastStopped, lastBlob,
                    idleCalls >>

\* The 200 ms timeout set by startRecording for recorder r; its state updates
\* are dropped once the component is unmounted.
StartTimer(r) ==
    /\ startTimer[r]
    /\ startTimer' = [startTimer EXCEPT ![r] = FALSE]
    /\ IF recState[r] = "inactive"
          THEN /\ recState' = [recState EXCEPT ![r] = "recording"]
               /\ onstartPending' = [onstartPending EXCEPT ![r] = TRUE]
               /\ IF mount = "mounted"
                     THEN /\ mediaRecorder' = r
                          /\ recording' = TRUE
                          /\ videoUrl' = 0
                     ELSE UNCHANGED << mediaRecorder, recording, videoUrl >>
          ELSE UNCHANGED << recState, onstartPending, mediaRecorder, recording, videoUrl >>
    /\ UNCHANGED << download, setupVars, loopVars, tallyVars, probeVars, error, supported, captured, artifactType, recMime, stopTask, recordedChunksRef, urls, saved, delivered, lastStopped, lastBlob,
                    idleCalls >>

\* recorder.onstart.  Its setError is dropped once the component is unmounted.
RecorderStart(r) ==
    /\ onstartPending[r]
    /\ onstartPending' = [onstartPending EXCEPT ![r] = FALSE]
    /\ error' = IF mount = "mounted" THEN NoError ELSE error
    /\ UNCHANGED << download, setupVars, loopVars, tallyVars, probeVars, supported, captured, artifactType, recState, recMime, startTimer, stopTask, recordedChunksRef, mediaRecorder, recording, videoUrl,
                    urls, saved, delivered, lastStopped, lastBlob,
                    idleCalls >>

\* A data event of recorder r while it records: recorder.ondataavailable.
RecorderData(r, size) ==
    /\ recState[r] = "recording"
    /\ ~onstartPending[r]
    /\ Len(delivered[r]) < MaxChunks
    /\ LET k == Len(delivered[r]) + 1 IN
       /\ recordedChunksRef' = ondataavailable(recordedChunksRef, r, k, size)
       /\ delivered' = [delivered EXCEPT
                           ![r] = IF size > 0 THEN Append(@, << r, k >>) ELSE @]
    /\ UNCHANGED << download, setupVars, loopVars, tallyVars, probeVars, error, supported, captured, artifactType, recState, recMime, startTimer,
                    onstartPending, stopTask, mediaRecorder, recording, videoUrl,
                    urls, saved, lastStopped, lastBlob,
                    idleCalls >>

\* stopRecording without its setRecording(false).
stopRecording_KeepsRecording ==
    /\ mount = "mounted"
    /\ IF mediaRecorder # 0 /\ recording
          THEN /\ IF recState[mediaRecorder] = "recording"
                     THEN /\ recState' = [recState EXCEPT ![mediaRecorder] = "inactive"]
                          /\ stopTask' = [stopTask EXCEPT ![mediaRecorder] = TRUE]
                     ELSE UNCHANGED << recState, stopTask >>
               /\ UNCHANGED << recording, idleCalls >>
          ELSE /\ idleCalls' = idleCalls \cup {"stopRecording"}
               /\ UNCHANGED << recState, stopTask, recording >>
    /\ UNCHANGED << download, setupVars, loopVars, tallyVars, probeVars, error, supported, captured,
                    artifactType, recMime, startTimer, onstartPending, recordedChunksRef,
                    mediaRecorder, videoUrl, urls, saved, delivered, lastStopped,
                    lastBlob >>

\* stopRecording().  MediaRecorder.stop() makes the recorder inactive at once
\* and queues its stop task.
stopRecording ==
    /\ mount = "mounted"
    /\ IF mediaRecorder # 0 /\ recording
          THEN /\ IF recState[mediaRecorder] = "recording"
                     THEN /\ recState' = [recState EXCEPT ![mediaRecorder] = "inactive"]
                          /\ stopTask' = [stopTask EXCEPT ![mediaRecorder] = TRUE]
                     ELSE UNCHANGED << recState, stopTask >>
               /\ recording' = FALSE
               /\ UNCHANGED idleCalls
          ELSE /\ idleCalls' = idleCalls \cup {"stopRecording"}
               /\ UNCHANGED << recState, stopTask, recording >>
    /\ UNCHANGED << download, setupVars, loopVars, tallyVars, probeVars, error, supported, captured, artifactType, recMime, startTimer, onstartPending, recordedChunksRef, mediaRecorder, videoUrl, urls, saved,
                    delivered, lastStopped, lastBlob >>

\* The stop task of recorder r: its last data event (recorder.ondataavailable)
\* and then its stop event (recorder.onstop), whose state updates are dropped
\* once the component is unmounted.
RecorderStopTask(r, size) ==
    /\ stopTask[r]
    /\ ~onstartPending[r]
    /\ stopTask' = [stopTask EXCEPT ![r] = FALSE]
    /\ LET k == Len(delivered[r]) + 1
           ref == ondataavailable(recordedChunksRef, r, k, size)
       IN
       /\ delivered' = [delivered EXCEPT
                           ![r] = IF size > 0 THEN Append(@, << r, k >>) ELSE @]
       /\ IF Len(ref) > 0
             THEN /\ urls' = urls \cup {r}
                  /\ artifactType' = [artifactType EXCEPT ![r] = BlobType(recMime[r])]
                  /\ videoUrl' = IF mount = "mounted" THEN r ELSE videoUrl
                  /\ UNCHANGED error
             ELSE /\ error' = IF mount = "mounted" THEN ErrNoData ELSE error
                  /\ videoUrl' = IF mount = "mounted" THEN 0 ELSE videoUrl
                  /\ UNCHANGED << urls, artifactType >>
       /\ lastStopped' = r
       /\ lastBlob' = ref
       /\ recordedChunksRef' = << >>
    /\ UNCHANGED << download, setupVars, loopVars, tallyVars, probeVars, supported, captured, recState, recMime, startTimer,
                    onstartPending, mediaRecorder, recording, saved,
                    idleCalls >>

\* a.click() on the temporary anchor: the file-save action.  page.js builds
\* the anchor and removes it without clicking it.
AnchorClicked(v) == v = "unnamed"

\* The test of downloadVideo without its condition.
HasArtifact_Always(url) == TRUE

\* if (videoUrl).
HasArtifact(url) == url # 0

\* `face-tracking-video-${Date.now()}.webm`: the pieces of the template
\* literal, in order.
DownloadName(now) == << "face-tracking-video", "-", now, ".", "webm" >>

\* downloadVideo().
downloadVideo ==
    /\ mount = "mounted"
    /\ IF HasArtifact(videoUrl)
          THEN /\ \E now \in 1..MaxNow : download' = DownloadName(now)
               /\ saved' = IF AnchorClicked(variant)
                              THEN [saved EXCEPT ![videoUrl] = @ + 1]
                              ELSE saved
               /\ urls' = urls \ {videoUrl}
               /\ videoUrl' = 0
               /\ UNCHANGED idleCalls
          ELSE /\ idleCalls' = idleCalls \cup {"downloadVideo"}
               /\ UNCHANGED << saved, download, urls, videoUrl >>
    /\ UNCHANGED << setupVars, loopVars, tallyVars, probeVars, error, supported, captured, artifactType, recState, recMime, startTimer,
                    onstartPending, stopTask, recordedChunksRef,
                    mediaRecorder, recording, delivered, lastStopped, lastBlob >>

\* ---------------------------------------------------------- annotation loop
\* The video element learns its dimensions (loadedmetadata).
MetadataLoaded ==
    /\ srcObject /\ ~videoDims
    /\ videoDims' = TRUE
    /\ UNCHANGED << setupVars, error, recVars, videoPlaying, playPending, retryTimers,
                    intervals, nIntervals, viaRetry, detectionIntervalId, inFlight, frameTickPending, canvas,
                    tallyVars, probeVars >>

\* The browser pauses or ends the playback.
VideoPause ==
    /\ videoPlaying
    /\ videoPlaying' = FALSE
    /\ UNCHANGED << setupVars, error, recVars, videoDims, playPending, retryTimers,
                    intervals, nIntervals, viaRetry, detectionIntervalId, inFlight, frameTickPending, canvas,
                    tallyVars, probeVars >>

\* The playback resumes, which queues a play event.
VideoResume ==
    /\ mount = "mounted"
    /\ srcObject /\ ~videoPlaying
    /\ videoPlaying' = TRUE
    /\ playPending' = TRUE
    /\ UNCHANGED << setupVars, error, recVars, videoDims, retryTimers, intervals,
                    nIntervals, viaRetry, detectionIntervalId, inFlight, frameTickPending, canvas, tallyVars,
                    probeVars >>

\* handleVideoPlay without its test of the video's dimensions.
handleVideoPlay_NoDimensionCheck(loaded, timers) ==
    IF ~loaded \/ ~faceapi
       THEN /\ retryTimers' = timers
            /\ UNCHANGED << intervals, nIntervals, detectionIntervalId >>
    ELSE /\ nIntervals < MaxIntervals
         /\ nIntervals' = nIntervals + 1
         /\ intervals' = intervals \cup {nIntervals + 1}
         /\ detectionIntervalId' = nIntervals + 1
         /\ retryTimers' = timers

\* handleVideoPlay(), as the memoized callback of the render with the given
\* modelsLoaded; timers: the retries pending beside this call.
handleVideoPlay(loaded, timers) ==
    IF ~loaded \/ ~faceapi
       THEN /\ retryTimers' = timers
            /\ UNCHANGED << intervals, nIntervals, detectionIntervalId >>
    ELSE IF ~videoDims
       THEN /\ timers < MaxRetries
            /\ retryTimers' = timers + 1
            /\ UNCHANGED << intervals, nIntervals, detectionIntervalId >>
    ELSE /\ nIntervals < MaxIntervals
         /\ nIntervals' = nIntervals + 1
         /\ intervals' = intervals \cup {nIntervals + 1}
         /\ detectionIntervalId' = nIntervals + 1
         /\ retryTimers' = timers

\* The video's play event is dispatched.  The second useEffect has added
\* handleVideoPlay as its listener once modelsLoaded is true; before that the
\* event has no listener, and the effect's cleanup removes it at the unmount.
PlayEvent ==
    /\ playPending
    /\ playPending' = FALSE
    /\ IF mount = "mounted" /\ modelsLoaded
          THEN handleVideoPlay(TRUE, retryTimers)
          ELSE UNCHANGED << retryTimers, intervals, nIntervals, detectionIntervalId >>
    /\ viaRetry' = (viaRetry /\ nIntervals' = nIntervals)
    /\ UNCHANGED << setupVars, error, recVars, videoPlaying, videoDims, inFlight, frameTickPending,
                    canvas, tallyVars, probeVars >>

\* A 200 ms retry set by handleVideoPlay fires: handleVideoPlay again, which
\* returns at once when videoRef.current is null (after the unmount).
RetryTimer ==
    /\ retryTimers > 0
    /\ IF mount = "mounted"
          THEN handleVideoPlay(TRUE, retryTimers - 1)
          ELSE /\ retryTimers' = retryTimers - 1
               /\ UNCHANGED << intervals, nIntervals, detectionIntervalId >>
    /\ viaRetry' = (viaRetry \/ nIntervals' > nIntervals)
    /\ UNCHANGED << setupVars, error, recVars, videoPlaying, videoDims, playPending,
                    inFlight, frameTickPending, canvas, tallyVars, probeVars >>

\* The callback with its clearRect ahead of the test of the video.
Tick_ClearsFirst(i) ==
    /\ i \in intervals
    /\ IF videoPlaying
          THEN /\ inFlight < MaxInFlight
               /\ canvas' = "frame"
               /\ inFlight' = inFlight + 1
               /\ frameTickPending' = TRUE
               /\ UNCHANGED intervals
          ELSE /\ intervals' = intervals \ {i}
               /\ canvas' = "blank"
               /\ UNCHANGED << inFlight, frameTickPending >>
    /\ UNCHANGED << setupVars, error, recVars, videoPlaying, videoDims, playPending,
                    retryTimers, nIntervals, viaRetry, detectionIntervalId, tallyVars, probeVars >>

\* The setInterval callback of interval i up to its await: the frame is
\* drawn and detectAllFaces is called, or the interval clears itself.
Tick(i) ==
    /\ i \in intervals
    /\ IF videoPlaying
          THEN /\ inFlight < MaxInFlight
               /\ canvas' = "frame"
               /\ inFlight' = inFlight + 1
               /\ frameTickPending' = TRUE
               /\ UNCHANGED intervals
          ELSE /\ intervals' = intervals \ {i}
               /\ UNCHANGED << canvas, inFlight, frameTickPending >>
    /\ UNCHANGED << setupVars, error, recVars, videoPlaying, videoDims, playPending,
                    retryTimers, nIntervals, viaRetry, detectionIntervalId, tallyVars, probeVars >>

\* Object.keys(expressions).reduce((a, b) => expressions[a] > expressions[b] ? a : b)
\* from key i on, with accumulator a.
RECURSIVE ReduceFrom(_, _, _)
ReduceFrom(expressions, a, i) ==
    IF i > Len(ExpressionLabels) THEN a
    ELSE ReduceFrom(expressions, IF expressions[a] > expressions[i] THEN a ELSE i, i + 1)

\* The reduce with >= in place of >.
RECURSIVE ReduceGeFrom(_, _, _)
ReduceGeFrom(expressions, a, i) ==
    IF i > Len(ExpressionLabels) THEN a
    ELSE ReduceGeFrom(expressions, IF expressions[a] >= expressions[i] THEN a ELSE i, i + 1)

dominantExpression_GreaterOrEqual(expressions) == ReduceGeFrom(expressions, 1, 2)

dominantExpression(expressions) == ReduceFrom(expressions, 1, 2)

\* The updater given to setExpressionCounts: newCounts[dominantExpression]++
\* for each detection, from detection i on.
RECURSIVE CountFrom(_, _, _)
CountFrom(counts, detections, i) ==
    IF i > Len(detections) THEN counts
    ELSE CountFrom([counts EXCEPT ![dominantExpression(detections[i])] = @ + 1],
                   detections, i + 1)

\* One increment per detection result, for its first face only.
UpdatedCounts_OncePerFrame(prevCounts, detections) ==
    IF Len(detections) > 0
       THEN [prevCounts EXCEPT ![dominantExpression(detections[1])] = @ + 1]
       ELSE prevCounts

\* The counts setExpressionCounts is left with after a detection.
UpdatedCounts(prevCounts, detections) ==
    IF Len(detections) > 0 THEN CountFrom(prevCounts, detections, 1) ELSE prevCounts

\* Whether the file keeps the tally.
HasTally(v) == v = "unnamed"

Total(counts) ==
    counts[1] + counts[2] + counts[3] + counts[4] + counts[5] + counts[6] + counts[7]

\* The labels with the highest score of e.
Maxima(e) == { i \in LabelIdx : \A j \in LabelIdx : e[j] <= e[i] }

\* The last of the labels with the highest score of e.
LastMaximum(e) == CHOOSE i \in Maxima(e) : \A j \in Maxima(e) : j <= i

\* LastMaximum over the expressions the annotation loop is explored under.
SampleTop == [e \in ExprSamples |-> LastMaximum(e)]

\* The faces among detections whose highest score is reached last at label i.
FacesFor(detections, i) ==
    Cardinality({ k \in 1..Len(detections) : SampleTop[detections[k]] = i })

\* The setInterval callback after its await: detectAllFaces has returned the
\* expressions of the detected faces; the annotations are drawn and the
\* tally updated (the update is dropped once the component is unmounted).
\* The call that settles is that of the tick that drew the frame now on the
\* canvas, or that of an earlier tick.
DetectSettle(detections) ==
    /\ inFlight > 0
    /\ inFlight' = inFlight - 1
    /\ \/ frameTickPending /\ frameTickPending' = FALSE
       \/ inFlight > (IF frameTickPending THEN 1 ELSE 0) /\ UNCHANGED frameTickPending
    /\ canvas' = "annotated"
    /\ lastFaces' = Len(detections)
    /\ IF HasTally(variant) /\ mount = "mounted"
          THEN /\ Total(expressionCounts) + Len(detections) <= MaxTally
               /\ expressionCounts' = UpdatedCounts(expressionCounts, detections)
               /\ tallied' = [i \in LabelIdx |-> tallied[i] + FacesFor(detections, i)]
          ELSE UNCHANGED << expressionCounts, tallied >>
    /\ UNCHANGED << setupVars, error, recVars, videoPlaying, videoDims, playPending,
                    retryTimers, intervals, nIntervals, viaRetry, detectionIntervalId, wasReset,
                    probeVars >>

\* The object with its last key left at the current count.
ZeroCounts_KeepsSurprised ==
    [i \in LabelIdx |-> IF i = 7 THEN expressionCounts[i] ELSE 0]

\* The object resetExpressionCounts gives to setExpressionCounts.
ZeroCounts == [i \in LabelIdx |-> 0]

\* resetExpressionCounts(), the Reset Counts button of the file with the tally.
resetExpressionCounts ==
    /\ mount = "mounted"
    /\ HasTally(variant)
    /\ expressionCounts' = ZeroCounts
    /\ tallied' = [i \in LabelIdx |-> 0]
    /\ wasReset' = (wasReset \/ Total(expressionCounts) > 0)
    /\ UNCHANGED << setupVars, error, recVars, loopVars, probeVars, lastFaces >>

\* The dominant-expression selection applied to the probe.
SelectDominant ==
    /\ picked = 0
    /\ picked' = dominantExpression(probe)
    /\ UNCHANGED << setupVars, error, recVars, loopVars, tallyVars, probe >>

\* ----------------------------------------------------------- specifications
NextSetup ==
    \/ ScriptLoaded
    \/ MountEffect
    \/ MountTimeout
    \/ \E loads \in LoadOutcomes : ModelsSettle(loads)
    \/ RequestCameraAccess
    \/ \E outcome \in CamOutcomes : GetUserMediaSettle(outcome)

\* The handlers as the page's controls reach them: a click on a disabled or
\* unrendered control calls nothing.
ClickStart == StartEnabled /\ \E ctorThrows \in BOOLEAN : startRecording(ctorThrows)
ClickStop == StopEnabled /\ stopRecording
ClickDownload == DownloadShown /\ downloadVideo

RecorderEvents ==
    \/ \E r \in Recorders : StartTimer(r)
    \/ \E r \in Recorders : RecorderStart(r)
    \/ \E r \in Recorders, size \in 0..1 : RecorderData(r, size)
    \/ \E r \in Recorders, size \in 0..1 : RecorderStopTask(r, size)

\* The recording pipeline driven through the page: mount, camera and models,
\* the three buttons and the recorder's callbacks.
NextRec == NextSetup \/ ClickStart \/ ClickStop \/ ClickDownload \/ RecorderEvents

SpecRec == Init /\ [][NextRec]_vars

\* The recording pipeline with its three operations called at any time after
\* the mount, whatever the controls show.
NextCalls ==
    \/ NextSetup
    \/ \E ctorThrows \in BOOLEAN : startRecording(ctorThrows)
    \/ stopRecording
    \/ downloadVideo
    \/ RecorderEvents

SpecCalls == Init /\ [][NextCalls]_vars

\* The initial state in a runtime that supports every candidate type.
InitLoopSpec ==
    /\ InitSetup
    /\ InitRec
    /\ InitLoop
    /\ InitProbe
    /\ supported = MimeIdx

\* Camera access and the Start button in a runtime that supports every type.
NextCamera ==
    \/ NextSetup
    \/ ClickStart
    \/ \E r \in Recorders : StartTimer(r)
    \/ \E r \in Recorders : RecorderStart(r)

SpecCamera == InitLoopSpec /\ [][NextCamera]_vars

\* startRecording called at any time after the mount, whatever the Start
\* button shows, and the start of the recorders it constructs.
NextStartCalls ==
    \/ NextSetup
    \/ \E ctorThrows \in BOOLEAN : startRecording(ctorThrows)
    \/ \E r \in Recorders : StartTimer(r)
    \/ \E r \in Recorders : RecorderStart(r)

SpecStartCalls == Init /\ [][NextStartCalls]_vars

\* Codec negotiation in every runtime: the Start button and the start of
\* the recorders it constructs.
InitCodec ==
    /\ InitSetup
    /\ InitRec
    /\ InitLoop
    /\ InitProbe
    /\ supported \in SUBSET MimeIdx

NextCodec ==
    \/ NextSetup
    \/ ClickStart
    \/ \E r \in Recorders : StartTimer(r)
    \/ \E r \in Recorders : RecorderStart(r)

SpecCodec == InitCodec /\ [][NextCodec]_vars

\* The setup without the Request Camera Access button: the camera is asked
\* for once, by the mount.
NextMount ==
    \/ ScriptLoaded
    \/ MountEffect
    \/ MountTimeout
    \/ \E loads \in LoadOutcomes : ModelsSettle(loads)
    \/ \E outcome \in CamOutcomes : GetUserMediaSettle(outcome)

\* stopRecording called at any time after the mount, over sessions started
\* through the Start button.  The browser's event loop runs every queued
\* task: a recorder's start event and its stop task are not postponed for
\* ever.
NextStop ==
    \/ NextMount
    \/ ClickStart
    \/ stopRecording
    \/ \E r \in Recorders : StartTimer(r)
    \/ \E r \in Recorders : RecorderStart(r)
    \/ \E r \in Recorders, size \in 0..1 : RecorderStopTask(r, size)

SpecStop ==
    /\ InitLoopSpec
    /\ [][NextStop]_vars
    /\ \A r \in Recorders :
          /\ WF_vars(RecorderStart(r))
          /\ WF_vars(\E size \in 0..1 : RecorderStopTask(r, size))

\* Recording sessions driven through the Start and Stop buttons in each of
\* the runtimes, with data events while the recorder records and at its stop.
NextSegments ==
    \/ NextMount
    \/ ClickStart
    \/ ClickStop
    \/ \E r \in Recorders : StartTimer(r)
    \/ \E r \in Recorders : RecorderStart(r)
    \/ \E r \in Recorders, size \in 0..1 : RecorderData(r, size)
    \/ \E r \in Recorders, size \in 0..1 : RecorderStopTask(r, size)

SpecSegments == Init /\ [][NextSegments]_vars

\* Recording beside the running annotation loop, in a runtime that supports
\* no candidate type and in one that supports them all: startRecording
\* called at any time after the mount, the Stop button, the recorder's
\* callbacks, and the video's events, ticks and detections.
InitFailures ==
    /\ InitSetup
    /\ InitRec
    /\ InitLoop
    /\ InitProbe
    /\ supported \in { {}, MimeIdx }

NextFailures ==
    \/ NextMount
    \/ MetadataLoaded
    \/ PlayEvent
    \/ RetryTimer
    \/ \E i \in Intervals : Tick(i)
    \/ \E detections \in {<< >>, << OneHot(4) >>} : DetectSettle(detections)
    \/ \E ctorThrows \in BOOLEAN : startRecording(ctorThrows)
    \/ ClickStop
    \/ \E r \in Recorders : StartTimer(r)
    \/ \E r \in Recorders : RecorderStart(r)
    \/ \E r \in Recorders, size \in 0..1 : RecorderStopTask(r, size)

SpecFailures == InitFailures /\ [][NextFailures]_vars

\* Sessions recorded, stopped and downloaded through the three buttons, in
\* each of the runtimes.
NextFiles ==
    \/ NextMount
    \/ ClickStart
    \/ ClickStop
    \/ ClickDownload
    \/ \E r \in Recorders : StartTimer(r)
    \/ \E r \in Recorders : RecorderStart(r)
    \/ \E r \in Recorders, size \in 0..1 : RecorderStopTask(r, size)

SpecFiles == Init /\ [][NextFiles]_vars

\* downloadVideo called at any time after the mount, over sessions driven
\* through the Start and Stop buttons whose recorder delivers its data at
\* stop only (what MediaRecorder does after a start() without a timeslice
\* argument).
NextDownload ==
    \/ NextSetup
    \/ ClickStart
    \/ ClickStop
    \/ \E r \in Recorders : StartTimer(r)
    \/ \E r \in Recorders : RecorderStart(r)
    \/ \E r \in Recorders, size \in 0..1 : RecorderStopTask(r, size)
    \/ downloadVideo

SpecDownload == InitLoopSpec /\ [][NextDownload]_vars

\* The annotation loop and the tally: mount, camera and models, the video's
\* events, the detection interval and the Reset Counts button.
NextLoop ==
    \/ NextSetup
    \/ MetadataLoaded
    \/ VideoPause
    \/ VideoResume
    \/ PlayEvent
    \/ RetryTimer
    \/ \E i \in Intervals : Tick(i)
    \/ \E detections \in DetectionResults : DetectSettle(detections)
    \/ resetExpressionCounts

SpecLoop == InitLoopSpec /\ [][NextLoop]_vars

\* The start of the annotation loop: mount, camera and models, the video's
\* events, the retries and the interval, with detections that find no face
\* or one angry face.
NextPlay ==
    \/ NextSetup
    \/ MetadataLoaded
    \/ VideoPause
    \/ VideoResume
    \/ PlayEvent
    \/ RetryTimer
    \/ \E i \in Intervals : Tick(i)
    \/ \E detections \in {<< >>, << OneHot(4) >>} : DetectSettle(detections)

SpecPlay == InitLoopSpec /\ [][NextPlay]_vars

\* The annotation loop over a playback the browser never interrupts.  The
\* browser's event loop runs every queued task and every timer that is due,
\* and every pending promise settles: none of the component's steps is
\* postponed for ever.
NextAnnotate ==
    \/ NextMount
    \/ MetadataLoaded
    \/ PlayEvent
    \/ RetryTimer
    \/ \E i \in Intervals : Tick(i)
    \/ \E detections \in {<< >>, << OneHot(4) >>} : DetectSettle(detections)

SpecAnnotate ==
    /\ InitLoopSpec
    /\ [][NextAnnotate]_vars
    /\ WF_vars(ScriptLoaded)
    /\ WF_vars(MountEffect)
    /\ WF_vars(MountTimeout)
    /\ WF_vars(\E loads \in LoadOutcomes : ModelsSettle(loads))
    /\ WF_vars(\E outcome \in CamOutcomes : GetUserMediaSettle(outcome))
    /\ WF_vars(MetadataLoaded)
    /\ WF_vars(PlayEvent)
    /\ WF_vars(RetryTimer)
    /\ \A i \in Intervals : WF_vars(Tick(i))
    /\ WF_vars(\E detections \in {<< >>, << OneHot(4) >>} : DetectSettle(detections))

\* The life of the component up to and after its unmount: mount, camera and
\* models, the video's events, the detection interval, the unmount and the
\* timers and promises that settle after it.
NextTeardown ==
    \/ NextSetup
    \/ MetadataLoaded
    \/ VideoPause
    \/ VideoResume
    \/ PlayEvent
    \/ RetryTimer
    \/ \E i \in Intervals : Tick(i)
    \/ \E detections \in DetectionResults : DetectSettle(detections)
    \/ \E refAttached \in BOOLEAN : Unmount(refAttached)

SpecTeardown == InitLoopSpec /\ [][NextTeardown]_vars

\* The tally of the file that keeps one, under a playback the browser never
\* interrupts: detections and resets in every order.
InitTally == InitLoopSpec /\ HasTally(variant)

NextTally ==
    \/ NextMount
    \/ MetadataLoaded
    \/ PlayEvent
    \/ RetryTimer
    \/ \E i \in Intervals : Tick(i)
    \/ \E detections \in DetectionResults : DetectSettle(detections)
    \/ resetExpressionCounts

SpecTally == InitTally /\ [][NextTally]_vars

\* The dominant-expression selection over every mapping of the seven labels
\* to the scores 0..MaxScore.
InitDominant ==
    /\ InitSetup
    /\ InitRec
    /\ InitLoop
    /\ supported = MimeIdx
    /\ probe \in [LabelIdx -> 0..MaxScore]
    /\ picked = 0

SpecDominant == InitDominant /\ [][SelectDominant]_vars

\* The whole component.
Next == NextCalls \/ NextLoop \/ SelectDominant \/ \E refAttached \in BOOLEAN : Unmount(refAttached)

Spec == Init /\ [][Next]_vars

\* ------------------------------------------------------------------ claims
\* The recorders that are in the recording state.
Recording == { r \in Recorders : recState[r] = "recording" }

\* The recorders whose segments are in a segment sequence.
Sources(segments) == { segments[k][1] : k \in 1..Len(segments) }

\* C1: however startRecording calls, start timers and recorder callbacks
\* interleave, two recorders are never in the recording state at the same
\* time, and the artifact assembled on stop holds the data of one session
\* only.
C1_OneSessionAtATime ==
    /\ Cardinality(Recording) <= 1
    /\ lastStopped # 0 => Sources(lastBlob) \subseteq {lastStopped}

C3_FirstSupportedChosen ==
    \A r \in Created :
        /\ recMime[r] \in supported
        /\ \A j \in supported : recMime[r] <= j

\* A recorder has been started with a type that is not the first of the
\* list, in a runtime that also supports a later one.
C3_LaterTypePassedOver ==
    \E r \in Recording :
        /\ recMime[r] > 1
        /\ \E j \in supported : j > recMime[r]

\* C4: with no candidate type supported, startRecording (past its readiness
\* check) sets the unsupported-codec error, constructs no recorder, schedules
\* no start timer and leaves recording, mediaRecorder, the segment buffer and
\* videoUrl as they were.
C4_UnsupportedCodec ==
    [][((\E ctorThrows \in BOOLEAN : startRecording(ctorThrows))
            /\ isCameraReady /\ supported = {})
        => /\ error' = ErrUnsupportedCodec
           /\ UNCHANGED << recState, recMime, startTimer, onstartPending, recording,
                           mediaRecorder, recordedChunksRef, videoUrl >>]_vars

\* startRecording has reported the unsupported-codec error in a runtime that
\* supports none of the types.
C4_ErrorReported ==
    supported = {} /\ error = ErrUnsupportedCodec /\ Created = {}

\* C8: downloadVideo called with videoUrl empty triggers no file-save action,
\* revokes no object URL and changes no state variable.
C8_DownloadWithoutArtifact ==
    [][(downloadVideo /\ videoUrl = 0)
        => UNCHANGED << setupVars, error, supported, captured, artifactType, recState, recMime, startTimer,
                        onstartPending, stopTask, recordedChunksRef, mediaRecorder,
                        recording, videoUrl, urls, saved, download, delivered,
                        lastStopped, lastBlob, loopVars, tallyVars, probeVars >>]_vars

\* downloadVideo has been called with videoUrl empty after a session's
\* on-stop handler ran.
C8_CalledWithoutArtifact ==
    "downloadVideo" \in idleCalls /\ lastStopped # 0 /\ videoUrl = 0

\* C9: downloadVideo called with an assembled artifact triggers exactly one
\* file-save action for it, releases its object URL and clears videoUrl; a
\* further downloadVideo without a new recording triggers no file action.
C9_DownloadSavesOnce ==
    /\ [][(downloadVideo /\ videoUrl # 0)
            => /\ saved' = [saved EXCEPT ![videoUrl] = @ + 1]
               /\ videoUrl \notin urls'
               /\ videoUrl' = 0]_vars
    /\ [][(downloadVideo /\ videoUrl = 0) => saved' = saved]_vars

C6_CountsAreFacesSeen ==
    /\ [](HasTally(variant) => expressionCounts = tallied)
    /\ [][(HasTally(variant) /\ inFlight' < inFlight) =>
                /\ Total(expressionCounts') = Total(expressionCounts) + lastFaces'
                /\ (lastFaces' = 0 => expressionCounts' = expressionCounts)]_vars

\* After a reset, one detection of two faces has been counted.
C6_TwoFacesCounted ==
    wasReset /\ lastFaces = 2 /\ Total(expressionCounts) = 2

\* C7: the tally maps exactly the seven labels to non-negative integers; a
\* count decreases only in a resetExpressionCounts step, and such a step
\* leaves all seven counts at 0.
C7_TallyShape ==
    /\ [](/\ DOMAIN expressionCounts = 1..7
          /\ \A i \in 1..7 : expressionCounts[i] \in Nat)
    /\ [][(\E i \in 1..7 : expressionCounts'[i] < expressionCounts[i])
             => resetExpressionCounts]_vars
    /\ [][resetExpressionCounts
             => \A i \in 1..7 : expressionCounts'[i] = 0]_vars

\* A reset has zeroed a tally that held counts, and a face has been counted
\* since.
C7_ResetThenCounted == wasReset /\ Total(expressionCounts) > 0

\* C10: at most one detection call is in flight, and a tick that fires while
\* one is pending draws nothing and calls no detection.
C10_SkipIfBusy ==
    /\ [](inFlight <= 1)
    /\ [][\A i \in Intervals :
            (Tick(i) /\ videoPlaying /\ inFlight > 0) =>
                UNCHANGED << canvas, inFlight >>]_vars

\* A handleVideoPlay call that finds the models loaded and the video without
\* dimensions.
ZeroDimsCall == mount = "mounted" /\ modelsLoaded /\ faceapi /\ ~videoDims

\* C11: a handleVideoPlay call (from the play event or from a retry) that
\* finds zero dimensions creates no interval, draws nothing, calls no
\* detection and leaves exactly one retry of its own pending; a retry that
\* finds the dimensions creates the interval, and the next tick of an interval
\* over the playing video draws the frame and calls the detection.
C11_DeferUntilDimensions ==
    /\ [][((PlayEvent \/ RetryTimer) /\ ZeroDimsCall)
            => /\ UNCHANGED << intervals, nIntervals, detectionIntervalId, canvas, inFlight >>
               /\ retryTimers' = IF playPending' # playPending
                                    THEN retryTimers + 1
                                    ELSE retryTimers]_vars
    /\ [][(RetryTimer /\ mount = "mounted" /\ videoDims)
            => /\ nIntervals' = nIntervals + 1
               /\ intervals' = intervals \cup {nIntervals'}
               /\ retryTimers' = retryTimers - 1]_vars
    /\ [][\A i \in Intervals :
            (Tick(i) /\ videoPlaying) => canvas' = "frame" /\ inFlight' = inFlight + 1]_vars

\* An interval created by a retry has ticked: the frame is drawn and a
\* detection is in flight.
C11_RetryStartedLoop ==
    viaRetry /\ nIntervals = 1 /\ canvas = "frame" /\ inFlight = 1

AllNetsLoaded == \A n \in Nets : netsLoaded[n]

\* C12: a detection call is in flight, or is issued, only when all four
\* model loads have resolved; once the loads have settled with a failure,
\* modelsLoaded is false, no interval exists, nothing was drawn and no
\* detection call is in flight.
C12_NoDetectionBeforeModels ==
    /\ [](inFlight > 0 => AllNetsLoaded)
    /\ [][inFlight' > inFlight => (AllNetsLoaded /\ modelsLoaded)]_vars
    /\ []((modelLoad = "settled" /\ ~AllNetsLoaded)
            => (~modelsLoaded /\ nIntervals = 0 /\ inFlight = 0 /\ canvas = "blank"))

\* The expression net alone failed to load, and the camera plays with its
\* dimensions known and its play event dispatched.
C12_LoadFailedWhilePlaying ==
    /\ modelLoad = "settled" /\ netsLoaded[1] /\ ~netsLoaded[4]
    /\ videoPlaying /\ videoDims /\ ~playPending

\* C13: after the unmount no detection interval is active and none is
\* created.
C13_NoTimerAfterUnmount ==
    /\ [](mount = "unmounted" => intervals = {})
    /\ [][mount = "unmounted" => nIntervals' = nIntervals]_vars

\* C14: after the unmount, once every camera-access request has settled, no
\* stream that getUserMedia returned has tracks that are not stopped.
C14_StreamsReleased ==
    (mount = "unmounted" /\ camPending = 0) => streams = 0

\* C15: a rejected camera-access request leaves the permission status
\* denied, isCameraReady false and the message of its failure class as the
\* error, with Request Camera Access offered and Start Recording disabled;
\* the status, the readiness and the two controls stay so until a request is
\* granted.
C15_RejectedRequest ==
    /\ [][\A outcome \in CamOutcomes \ {"granted"} :
            (GetUserMediaSettle(outcome) /\ mount = "mounted")
            => /\ cameraPermissionStatus' = "denied"
               /\ ~isCameraReady'
               /\ (outcome = "NotAllowedError" => error' = ErrNotAllowed)
               /\ (outcome = "NotFoundError" => error' = ErrNotFound)
               /\ (outcome = "NotReadableError" => error' = ErrNotReadable)
               /\ (outcome = "other" => error' = ErrWebcamOther)
               /\ RequestShown'
               /\ ~StartEnabled']_vars
    /\ [][(cameraPermissionStatus = "denied" /\ ~isCameraReady)
            => \/ /\ cameraPermissionStatus' = "denied"
                  /\ ~isCameraReady'
                  /\ RequestShown'
                  /\ ~StartEnabled'
               \/ GetUserMediaSettle("granted")]_vars

\* With the models loaded, a request has been rejected for a missing camera.
C15_CameraNotFound ==
    /\ cameraPermissionStatus = "denied" /\ error = ErrNotFound
    /\ modelsLoaded /\ camPending = 0

\* C16: startRecording called while the camera is not ready sets the
\* not-ready error and does nothing else: no canvas stream is captured, no
\* recorder constructed, no start timer scheduled, and recording,
\* mediaRecorder, the segment buffer and videoUrl are as they were.
C16_NotReady ==
    [][((\E ctorThrows \in BOOLEAN : startRecording(ctorThrows)) /\ ~isCameraReady)
        => /\ error' = ErrNotReady
           /\ UNCHANGED << captured, recState, recMime, startTimer, onstartPending,
                           stopTask, recording, mediaRecorder, recordedChunksRef,
                           videoUrl, urls >>]_vars

\* startRecording has been called with the models loaded and the camera
\* denied.
C16_CalledWhileDenied ==
    /\ error = ErrNotReady /\ modelsLoaded /\ cameraPermissionStatus = "denied"
    /\ ~captured /\ Created = {}

\* C17: stopRecording with recording false or no recorder stored changes
\* nothing; with an active session it stops the stored recorder, which is in
\* the recording state, and returns with recording false and no artifact of
\* that session yet; every recorder asked to stop later has its on-stop
\* handler run, which leaves either its artifact in videoUrl or the
\* no-data-captured error.
C17_StopThenOutcome ==
    /\ [][(stopRecording /\ ~(mediaRecorder # 0 /\ recording))
            => UNCHANGED << setupVars, error, supported, captured, artifactType,
                            recState, recMime, startTimer, onstartPending, stopTask,
                            recordedChunksRef, mediaRecorder, recording, videoUrl, urls,
                            saved, download, delivered, lastStopped, lastBlob,
                            loopVars, tallyVars, probeVars >>]_vars
    /\ [][(stopRecording /\ mediaRecorder # 0 /\ recording)
            => /\ recState[mediaRecorder] = "recording"
               /\ recState'[mediaRecorder] = "inactive"
               /\ stopTask'[mediaRecorder]
               /\ ~recording'
               /\ mediaRecorder \notin urls' /\ videoUrl' # mediaRecorder
               /\ UNCHANGED << videoUrl, urls, artifactType, lastStopped, lastBlob,
                               error >>]_vars
    /\ \A r \in Recorders :
          stopTask[r] ~> /\ ~stopTask[r]
                         /\ lastStopped = r
                         /\ (videoUrl = r /\ r \in urls) \/ error = ErrNoData

\* A session has been stopped and its artifact assembled, and stopRecording
\* has also been called with no session active.
C17_StoppedAndAssembled ==
    /\ lastStopped # 0 /\ videoUrl = lastStopped
    /\ "stopRecording" \in idleCalls

\* C18: Start Recording is enabled only with the camera ready, the models
\* loaded and no recorder recording; the recording flag, which enables Stop
\* Recording, is true exactly when a recorder has been started and not yet
\* asked to stop; Download is shown only when videoUrl is the object URL of
\* an assembled artifact.
C18_ControlsMatchState ==
    /\ StartEnabled => (isCameraReady /\ modelsLoaded /\ Recording = {})
    /\ StopEnabled <=> Recording # {}
    /\ DownloadShown => (videoUrl \in urls /\ artifactType[videoUrl] # "")

\* C19: a non-empty segment that a recorder delivers with its stop task,
\* after stopRecording asked it to stop, is the last segment of what its
\* on-stop handler assembles, and the handler leaves that artifact in
\* videoUrl.
C19_LateSegmentIncluded ==
    [][\A r \in Recorders :
        (stopTask[r] /\ ~stopTask'[r] /\ delivered'[r] # delivered[r])
        => /\ lastBlob' # << >>
           /\ lastBlob'[Len(lastBlob')] = delivered'[r][Len(delivered'[r])]
           /\ videoUrl' = r
           /\ r \in urls']_vars

\* An artifact has been assembled from a segment delivered while the
\* recorder recorded and one delivered after the stop request.
C19_TwoSegmentsAssembled ==
    /\ lastStopped # 0 /\ videoUrl = lastStopped
    /\ Len(lastBlob) = 2 /\ lastBlob = delivered[lastStopped]

\* C20: the on-stop handler leaves the segment buffer empty; with no segment
\* in the buffer it sets the no-data-captured error and videoUrl to '' and
\* makes no artifact, with at least one it makes one new artifact whose type
\* is the container of the recorder's codec (video/mp4 for the avc1 entry,
\* video/webm for the others), puts it in videoUrl and sets no error.
C20_OnStopOutcome ==
    [][\A r \in Recorders :
        (stopTask[r] /\ ~stopTask'[r])
        => /\ recordedChunksRef' = << >>
           /\ IF lastBlob' = << >>
                 THEN /\ error' = ErrNoData
                      /\ videoUrl' = 0
                      /\ UNCHANGED << urls, artifactType >>
                 ELSE /\ r \notin urls
                      /\ urls' = urls \cup {r}
                      /\ videoUrl' = r
                      /\ artifactType' =
                            [artifactType EXCEPT
                               ![r] = IF recMime[r] = 6 THEN "video/mp4" ELSE "video/webm"]
                      /\ UNCHANGED error]_vars

\* One session has ended in an artifact of a vp8 recorder, a later one with
\* no data.
C20_ArtifactThenNoData ==
    /\ lastStopped = 2 /\ error = ErrNoData /\ videoUrl = 0
    /\ recMime[1] = 2 /\ artifactType[1] = "video/webm"

\* C21: a recorder enters the recording state only in the step of its own
\* start timer, which finds it inactive; its timer is scheduled once, at its
\* construction, and is spent by that step, so no recorder is started twice;
\* recording becomes true only in such a timer step, never in a
\* startRecording step; a timer that finds its recorder not inactive changes
\* nothing.
C21_StartOnlyFromTimer ==
    /\ [][\A r \in Recorders :
            (recState'[r] = "recording" /\ recState[r] # "recording")
            => (StartTimer(r) /\ recState[r] = "inactive" /\ startTimer[r] /\ ~startTimer'[r])]_vars
    /\ [][\A r \in Recorders :
            (startTimer'[r] /\ ~startTimer[r]) => recState[r] = "uncreated"]_vars
    /\ [][(recording' /\ ~recording)
            => \E r \in Recorders : StartTimer(r) /\ recState[r] = "inactive"]_vars
    /\ [][(\E ctorThrows \in BOOLEAN : startRecording(ctorThrows))
            => UNCHANGED << recording, mediaRecorder, onstartPending >>
               /\ \A r \in Recorders : recState'[r] # "recording" \/ recState[r] = "recording"]_vars
    /\ [][\A r \in Recorders :
            (StartTimer(r) /\ recState[r] # "inactive")
            => UNCHANGED << recState, onstartPending, mediaRecorder, recording, videoUrl,
                            error, recordedChunksRef >>]_vars

\* A first session has been stopped and assembled, and the timer of a second
\* recorder has started it.
C21_SecondSessionStarted ==
    /\ lastStopped = 1 /\ recState[1] = "inactive"
    /\ recState[2] = "recording" /\ recording /\ mediaRecorder = 2

\* C22: a tick of interval i that finds the video paused or ended clears
\* interval i and changes nothing else (the canvas, the detection calls in
\* flight and the tally are as they were); an interval that becomes active is
\* a new one, so a cleared interval never ticks again; and a new interval is
\* created only by handleVideoPlay, in the step of a play event or of the
\* retry such an event left.
C22_PausedTickCancels ==
    /\ [][\A i \in Intervals :
            (Tick(i) /\ ~videoPlaying)
            => /\ intervals' = intervals \ {i}
               /\ UNCHANGED << canvas, inFlight, tallyVars, nIntervals,
                               detectionIntervalId, retryTimers, playPending,
                               videoPlaying, error >>]_vars
    /\ [][\A i \in Intervals :
            (i \in intervals' /\ i \notin intervals)
            => (i > nIntervals /\ nIntervals' = i /\ (PlayEvent \/ RetryTimer))]_vars
    /\ [][retryTimers' > retryTimers => (PlayEvent \/ RetryTimer)]_vars
    /\ [][inFlight' > inFlight => (videoPlaying /\ intervals # {})]_vars

\* The first interval has cleared itself at a pause, and after a new play
\* event a second one has drawn a frame.
C22_RestartedAfterPause ==
    /\ nIntervals = 2 /\ intervals = {2}
    /\ videoPlaying /\ canvas = "frame" /\ inFlight > 0

\* C23: a step in which a detection settles and annotations are drawn for
\* its faces is the step of the tick that drew the frame now on the canvas:
\* no other tick has cleared or redrawn the canvas since that tick's draw.
C23_AnnotationsOnOwnFrame ==
    [][(inFlight' < inFlight /\ lastFaces' > 0)
        => (frameTickPending /\ ~frameTickPending')]_vars

\* C24: once the component is mounted with the models loaded and the video
\* playing with its dimensions known, a tick eventually draws a frame onto
\* the canvas and calls the detection, whichever of the models' load and the
\* video's play event came first.
C24_LoopEventuallyRuns ==
    (mount = "mounted" /\ modelsLoaded /\ videoPlaying /\ videoDims)
        ~> (canvas # "blank")

\* C25: a startRecording call that constructs no recorder (not ready,
\* unsupported codec, constructor failure) and an on-stop handler that finds
\* no data leave the camera, the permission status, the models, the video,
\* the detection intervals, the detection calls, the canvas and the tally as
\* they were.
C25_FailuresLeaveLoopAlone ==
    [][(\/ (\E ctorThrows \in BOOLEAN : startRecording(ctorThrows)) /\ recState' = recState
        \/ \E r \in Recorders : stopTask[r] /\ ~stopTask'[r] /\ lastBlob' = << >>)
        => /\ error' \in {ErrNotReady, ErrUnsupportedCodec, ErrRecorderCtor, ErrNoData}
           /\ UNCHANGED << setupVars, loopVars, tallyVars >>]_vars

\* A session has ended with no data while an interval is active over the
\* ready camera and a face has been counted.
C25_NoDataWhileLoopRuns ==
    /\ lastStopped # 0 /\ error = ErrNoData
    /\ isCameraReady /\ modelsLoaded /\ intervals # {} /\ Total(expressionCounts) > 0

\* C26: the name downloadVideo gives the file is the fixed prefix, '-', the
\* value of Date.now(), '.', and the extension of the container of the type
\* the artifact's recorder was constructed with: mp4 for video/mp4;
\* codecs=avc1, webm for the five video/webm candidates.
C26_NameHasContainerExtension ==
    [][(downloadVideo /\ videoUrl # 0)
        => \E now \in 1..MaxNow :
              download' = << "face-tracking-video", "-", now, ".",
                             IF recMime[videoUrl] = 6 THEN "mp4" ELSE "webm" >>]_vars

\* C27: every camera-access request (a getUserMedia call is issued) puts
\* cameraPermissionStatus into its requesting value, 'prompt'; the camera
\* becomes ready only in the step that grants a request, out of that value;
\* a request rejected for want of permission leaves the status denied, one
\* rejected for a device fault (no camera, camera not readable) leaves it in
\* an errored value that is not denied.
C27_CaptureTransitions ==
    /\ [][camPending' > camPending => cameraPermissionStatus' = "prompt"]_vars
    /\ [][(isCameraReady' /\ ~isCameraReady)
            => (cameraPermissionStatus = "prompt" /\ GetUserMediaSettle("granted"))]_vars
    /\ [][(GetUserMediaSettle("NotAllowedError") /\ mount = "mounted")
            => cameraPermissionStatus' = "denied"]_vars
    /\ [][((GetUserMediaSettle("NotFoundError") \/ GetUserMediaSettle("NotReadableError"))
              /\ mount = "mounted")
            => cameraPermissionStatus' \notin {"unknown", "prompt", "granted", "denied"}]_vars

\* C28: an object URL that has been created and not revoked is the one held
\* in videoUrl.
C28_UrlsHeldOrRevoked ==
    \A u \in urls : u = videoUrl

\* C29: at most one detection interval is active, and an active interval is
\* the one whose id is stored on the video element.
C29_OneInterval ==
    /\ Cardinality(intervals) <= 1
    /\ \A i \in intervals : i = detectionIntervalId

\* C30: once the component is mounted and the detection library is present,
\* the model load is eventually attempted and settles (which sets
\* modelsLoaded or the model-load error), and camera access is eventually
\* requested, with no user action.
C30_SetupEventuallyStarts ==
    /\ (mount = "mounted" /\ faceapi) ~> (modelLoad = "settled")
    /\ (mount = "mounted" /\ faceapi)
          ~> (camPending > 0 \/ cameraPermissionStatus # "unknown")

\* C31: while recording is true, videoUrl is empty.
C31_NoArtifactWhileRecording ==
    recording => videoUrl = 0

====
